---------------------------- MODULE Spec2Model ----------------------------
(***************************************************************************)
(* A model of src/readraw.go (package arw): the parameter extractor        *)
(* extractDetails, the gamma fit gammacorrect / gamma, the pixel corrector *)
(* process, the two reconstruction strategies readraw14 and readCRAW with  *)
(* their neighbor-fill pass, and the raster sink pixel16.RGBA.             *)
(*                                                                         *)
(* Floating point.  The fit solves the 6x6 Vandermonde system of the       *)
(* abscissas 0..5 for integer ordinates, so 120 times every coefficient is *)
(* an integer; xfactors holds these integers (xfactors120).  The model     *)
(* draws only samples whose white-balanced value is above the 14-bit       *)
(* ceiling or an exact multiple of 0xCCC (an abscissa of the fit), where   *)
(* the value of the polynomial is the control ordinate and the truncation  *)
(* of its product with 1.596472423 does not depend on rounding noise       *)
(* (OnGrid).  A white-balance ratio is the pair <<numerator, denominator>>.*)
(***************************************************************************)
EXTENDS Integers, Sequences, FiniteSets, TLC

VARIABLES
  xfactors,   \* var xfactors [6]float64, each as 120 * coefficient
  \* ---- one correction call followed to the display value
  pcur, pblack, pwb, pcurve, pout, ppix, prgba, ppc,
  \* ---- extractDetails
  meta, fi, rw, ret,
  \* ---- readraw14 / readCRAW
  kind, raw, buf, img, whiteBalanceRGGB, row, pc, written, oob,
  \* ---- two decodes sharing xfactors
  dpc, dcurve, dfit, dleft, dused

procVars == <<pcur, pblack, pwb, pcurve, pout, ppix, prgba, ppc>>
extVars == <<meta, fi, ret>>
decVars == <<kind, raw, buf, img, whiteBalanceRGGB, row, pc, written, oob>>
gamVars == <<dpc, dcurve, dfit, dleft, dused>>
vars == <<xfactors, procVars, extVars, rw, decVars, gamVars>>

---------------------------------------------------------------------------
(* Program constants                                                       *)

Ceiling14 == 16383
GammaDomain == 3276
GammaspaceHi == 15964
GammaspaceLo == 72423
Uint16Mod == 65536
AlphaOpaque == 65535

---------------------------------------------------------------------------
(* Gamma Curve Solver: vandermonde, gammacorrect                           *)

\* 120 * inverse of the Vandermonde matrix of the abscissas 0..5: row j gives
\* the coefficient of x^(j-1) from the six ordinates.
InvVandermonde120 ==
  << <<120, 0, 0, 0, 0, 0>>,
     <<-274, 600, -600, 400, -150, 24>>,
     <<225, -770, 1070, -780, 305, -50>>,
     <<-85, 355, -590, 490, -205, 35>>,
     <<15, -70, 130, -120, 55, -10>>,
     <<-1, 5, -10, 10, -5, 1>> >>

Ordinates(curve) ==
  <<0, curve[1], curve[2], curve[3], curve[4], Ceiling14>>

Dot6(a, b) ==
  a[1]*b[1] + a[2]*b[2] + a[3]*b[3] + a[4]*b[4] + a[5]*b[5] + a[6]*b[6]

\* gammacorrect(curve): the value it leaves in xfactors
gammacorrect(curve) ==
  [j \in 1..6 |-> Dot6(InvVandermonde120[j], Ordinates(curve))]

---------------------------------------------------------------------------
(* Pixel Corrector: gamma, process                                         *)

RECURSIVE GCD(_, _)
GCD(a, b) == IF b = 0 THEN a ELSE GCD(b, a % b)

Pow(b, e) ==
  CASE e = 0 -> 1
    [] e = 1 -> b
    [] e = 2 -> b*b
    [] e = 3 -> b*b*b
    [] e = 4 -> b*b*b*b
    [] OTHER -> b*b*b*b*b

\* The weighted sum of powers 0..5 at x = p/q with the coefficients xf/120.
Poly(xf, p, q) ==
  ( xf[6]*Pow(p,5) + xf[5]*Pow(p,4)*q + xf[4]*Pow(p,3)*Pow(q,2)
    + xf[3]*Pow(p,2)*Pow(q,3) + xf[2]*p*Pow(q,4) + xf[1]*Pow(q,5) )
  \div (120 * Pow(q,5))

\* gamma(x) for x = n/d, reading the ambient xfactors
gamma(n, d) ==
  IF n > Ceiling14 * d
    THEN Ceiling14
    ELSE LET g == GCD(n, d * GammaDomain)
         IN  Poly(xfactors, n \div g, (d * GammaDomain) \div g)

\* uint32(v * 1.596472423): 1.596472423 = (GammaspaceHi*10^5 + GammaspaceLo)/10^9
MulGammaspace(v) ==
  (v * GammaspaceHi + (v * GammaspaceLo) \div 100000) \div 10000

processStrictBelow(c, b, wb) ==
  IF c < b
    THEN c
    ELSE MulGammaspace(gamma((c - b) * wb[1], wb[2]))

\* process(cur, black, whiteBalance)
process(c, b, wb) ==
  IF c <= b
    THEN c
    ELSE MulGammaspace(gamma((c - b) * wb[1], wb[2]))

\* The samples for which the model's arithmetic is that of the code.
OnGrid(c, b, wb) ==
  IF c <= b THEN TRUE
  ELSE IF (c - b) * wb[1] > Ceiling14 * wb[2] THEN TRUE
  ELSE ((c - b) * wb[1]) % (wb[2] * GammaDomain) = 0

---------------------------------------------------------------------------
(* Raster Sink: pixel16, RGBA                                              *)

ZeroPixel == [R |-> 0, G |-> 0, B |-> 0]

Uint16(v) == v % Uint16Mod

\* (c pixel16) RGBA(): the shift is done in uint16
RGBA(c) ==
  [r |-> Uint16(c.R * 4), g |-> Uint16(c.G * 4), b |-> Uint16(c.B * 4),
   a |-> AlphaOpaque]

---------------------------------------------------------------------------
(* Input domains                                                           *)

MaxSampleStep == 5

Curves ==
  { <<4096, 8192, 12288, 16383>>,
    <<8000, 11000, 12953, 14000>>,
    <<1000, 3000, 7000, 12000>> }

\* whiteBalance[i] / maxBalance for the channels of WB_RGGBLevels
\* <<100,100,100,100>> and <<50,100,100,50>>
Ratios == { <<100, 100>>, <<50, 100>> }

BlackLevels == {0, 512, 2 * GammaDomain, 20000}

SampleValues ==
  {0, 1, 511, 512, 20000, 40000, Uint16Mod - 1}
    \cup { 512 + k * GammaDomain : k \in 1..MaxSampleStep }
    \cup { k * 2 * GammaDomain : k \in 1..MaxSampleStep }

ZeroFactors == <<0, 0, 0, 0, 0, 0>>

ZeroDetails ==
  [width |-> 0, height |-> 0, bitDepth |-> 0, rawType |-> 0,
   offset |-> 0, stride |-> 0, length |-> 0,
   blackLevel |-> <<0, 0, 0, 0>>, WhiteBalance |-> <<0, 0, 0, 0>>,
   gammaCurve |-> <<0, 0, 0, 0, 0>>]

ProcIdle ==
  /\ pcur = 0 /\ pblack = 0 /\ pwb = <<1, 1>> /\ pcurve = <<0, 0, 0, 0>>
  /\ pout = 0 /\ ppix = ZeroPixel /\ prgba = RGBA(ZeroPixel) /\ ppc = "idle"

ExtIdle ==
  /\ meta = [err |-> FALSE, FIA |-> <<>>] /\ fi = 0 /\ ret = "idle"

DecIdle ==
  /\ kind = "none" /\ raw = <<>> /\ buf = <<>> /\ img = <<>>
  /\ whiteBalanceRGGB = <<>> /\ row = 0 /\ pc = "idle"
  /\ written = <<>> /\ oob = FALSE

GamIdle ==
  /\ dpc = <<>> /\ dcurve = <<>> /\ dfit = <<>> /\ dleft = <<>>
  /\ dused = <<>>

---------------------------------------------------------------------------
(* One sample through gammacorrect, process, the raster store and RGBA     *)

InitProcess ==
  /\ xfactors = ZeroFactors
  /\ pcurve \in Curves
  /\ pcur \in SampleValues
  /\ pblack \in BlackLevels
  /\ pwb \in Ratios
  /\ OnGrid(pcur, pblack, pwb)
  /\ pout = 0 /\ ppix = ZeroPixel /\ prgba = RGBA(ZeroPixel) /\ ppc = "fit"
  /\ ExtIdle /\ rw = ZeroDetails /\ DecIdle /\ GamIdle

\* readraw14 l.320-325: the fit that precedes every correction call
CallGammacorrect ==
  /\ ppc = "fit"
  /\ xfactors' = gammacorrect(pcurve)
  /\ ppc' = "process"
  /\ UNCHANGED <<pcur, pblack, pwb, pcurve, pout, ppix, prgba>>
  /\ UNCHANGED <<extVars, rw, decVars, gamVars>>

\* readraw14 l.351: cur = process(cur, black, whiteBalance)
CallProcess ==
  /\ ppc = "process"
  /\ pout' = process(pcur, pblack, pwb)
  /\ ppc' = "store"
  /\ UNCHANGED <<xfactors, pcur, pblack, pwb, pcurve, ppix, prgba>>
  /\ UNCHANGED <<extVars, rw, decVars, gamVars>>

\* readraw14 l.352: img.Pix[..].R = uint16(cur)
StoreSample ==
  /\ ppc = "store"
  /\ ppix' = [ppix EXCEPT !.R = Uint16(pout)]
  /\ ppc' = "rgba"
  /\ UNCHANGED <<xfactors, pcur, pblack, pwb, pcurve, pout, prgba>>
  /\ UNCHANGED <<extVars, rw, decVars, gamVars>>

\* pixel16.RGBA of the stored cell
CallRGBA ==
  /\ ppc = "rgba"
  /\ prgba' = RGBA(ppix)
  /\ ppc' = "done"
  /\ UNCHANGED <<xfactors, pcur, pblack, pwb, pcurve, pout, ppix>>
  /\ UNCHANGED <<extVars, rw, decVars, gamVars>>

NextProcess ==
  \/ CallGammacorrect
  \/ CallProcess
  \/ StoreSample
  \/ CallRGBA

SpecProcess == InitProcess /\ [][NextProcess]_vars

\* The fit interpolates: at abscissa k the polynomial is the k-th ordinate.
FitInterpolates ==
  ppc \in {"process", "store", "rgba", "done"} =>
    \A k \in 0..5 : Poly(xfactors, k, 1) = Ordinates(pcurve)[k + 1]

---------------------------------------------------------------------------
(* Parameter Extractor: extractDetails                                     *)
(*                                                                         *)
(* meta is what ExtractMetaData returns for the top-level directory: a     *)
(* parse error or the tag list FIA in on-disk order.  An entry of the list *)
(* carries what the tag-tree reader returns for the directory it points    *)
(* to: ifd for SubIFDs (the sensor sub-tree) and for DNGPrivateData (the   *)
(* directory holding the SR2 offset, length and key), and sr2, the parse   *)
(* of the block DecryptSR2 returns.  The fields cfaPattern, cfaPatternDim  *)
(* and crop of rawDetails are not modelled.                                *)

MaxTags == 3

Field(t, o, v) == [Tag |-> t, Offset |-> o, vals |-> v]

NoTree == [err |-> FALSE, FIA |-> <<>>]
BadTree == [err |-> TRUE, FIA |-> <<>>]
Tree(f) == [err |-> FALSE, FIA |-> f]

SensorBlack == <<512, 512, 512, 512>>
SensorWB == <<2000, 1024, 1024, 1500>>
PrivateBlack == <<508, 510, 510, 508>>
PrivateBlack2 == <<500, 501, 502, 503>>
PrivateWB == <<2400, 1024, 1024, 1700>>

SensorDims ==
  << Field("ImageWidth", 4, <<>>), Field("ImageHeight", 2, <<>>),
     Field("BitsPerSample", 14, <<>>), Field("SonyRawFileType", 1, <<>>),
     Field("StripOffsets", 4096, <<>>), Field("RowsPerStrip", 2, <<>>),
     Field("StripByteCounts", 16, <<>>),
     Field("SonyCurve", 0, <<8000, 11000, 12953, 14000>>) >>

SensorTrees ==
  { Tree(SensorDims \o << Field("BlackLevel2", 0, SensorBlack),
                          Field("WB_RGGBLevels", 0, SensorWB) >>),
    Tree(<< Field("WB_RGGBLevels", 0, SensorWB) >> \o SensorDims),
    Tree(SensorDims),
    BadTree }

SR2Trees ==
  { Tree(<< Field("BlackLevel2", 0, PrivateBlack),
            Field("WB_RGGBLevels", 0, PrivateWB) >>),
    Tree(<< Field("BlackLevel2", 0, PrivateBlack2),
            Field("Other", 0, <<>>),
            Field("BlackLevel2", 0, PrivateBlack) >>),
    Tree(<< Field("WB_RGGBLevels", 0, PrivateWB) >>),
    Tree(<<>>),
    BadTree }

Entry(t, i, s) == [Tag |-> t, ifd |-> i, sr2 |-> s]

TopEntries ==
  { Entry("SubIFDs", t, NoTree) : t \in SensorTrees }
    \cup { Entry("DNGPrivateData", NoTree, s) : s \in SR2Trees }
    \cup { Entry("DNGPrivateData", BadTree, NoTree), Entry("Other", NoTree, NoTree) }

TagLists == UNION { [1..n -> TopEntries] : n \in 0..MaxTags }

\* copy(dst, src): the first min(len(dst), len(src)) elements
Copy(dst, src) ==
  [k \in 1..Len(dst) |-> IF k <= Len(src) THEN src[k] ELSE dst[k]]

\* the switch of l.47-81 for one tag of the sensor sub-tree
RawIFDTag(r, v) ==
  CASE v.Tag = "ImageWidth" -> [r EXCEPT !.width = Uint16(v.Offset)]
    [] v.Tag = "ImageHeight" -> [r EXCEPT !.height = Uint16(v.Offset)]
    [] v.Tag = "BitsPerSample" -> [r EXCEPT !.bitDepth = Uint16(v.Offset)]
    [] v.Tag = "SonyRawFileType" -> [r EXCEPT !.rawType = v.Offset]
    [] v.Tag = "StripOffsets" -> [r EXCEPT !.offset = v.Offset]
    [] v.Tag = "RowsPerStrip" -> [r EXCEPT !.stride = v.Offset]
    [] v.Tag = "StripByteCounts" -> [r EXCEPT !.length = v.Offset]
    [] v.Tag = "SonyCurve" ->
         [r EXCEPT !.gammaCurve =
            Copy(SubSeq(r.gammaCurve, 1, 4), v.vals) \o <<Ceiling14>>]
    [] v.Tag = "BlackLevel2" -> [r EXCEPT !.blackLevel = Copy(@, v.vals)]
    [] v.Tag = "WB_RGGBLevels" -> [r EXCEPT !.WhiteBalance = Copy(@, v.vals)]
    [] OTHER -> r

\* the loop of l.46-82 over rawIFD.FIA
RECURSIVE ApplyRawIFD(_, _)
ApplyRawIFD(r, f) ==
  IF f = <<>> THEN r ELSE ApplyRawIFD(RawIFDTag(r, Head(f)), Tail(f))

\* the switch of l.121-128 for one tag of the decrypted block
SR2Tag(r, v) ==
  CASE v.Tag = "BlackLevel2" -> [r EXCEPT !.blackLevel = Copy(@, v.vals)]
    [] v.Tag = "WB_RGGBLevels" -> [r EXCEPT !.WhiteBalance = Copy(@, v.vals)]
    [] OTHER -> r

SR2TagIfUnset(r, v) ==
  CASE v.Tag = "BlackLevel2" /\ r.blackLevel = ZeroDetails.blackLevel ->
         [r EXCEPT !.blackLevel = Copy(@, v.vals)]
    [] v.Tag = "WB_RGGBLevels" /\ r.WhiteBalance = ZeroDetails.WhiteBalance ->
         [r EXCEPT !.WhiteBalance = Copy(@, v.vals)]
    [] OTHER -> r

RECURSIVE ApplySR2IfUnset(_, _)
ApplySR2IfUnset(r, f) ==
  IF f = <<>> THEN r ELSE ApplySR2IfUnset(SR2TagIfUnset(r, Head(f)), Tail(f))

\* the loop of l.120-129 over sr2.FIA
RECURSIVE ApplySR2(_, _)
ApplySR2(r, f) ==
  IF f = <<>> THEN r ELSE ApplySR2(SR2Tag(r, Head(f)), Tail(f))

InitExtract ==
  /\ xfactors = ZeroFactors
  /\ ProcIdle /\ DecIdle /\ GamIdle
  /\ meta \in ({BadTree} \cup { Tree(f) : f \in TagLists })
  /\ fi = 0
  /\ rw = ZeroDetails
  /\ ret = "call"

\* l.31-38: var rw; ParseHeader; ExtractMetaData of the top-level directory
ExtractBegin ==
  /\ ret = "call"
  /\ IF meta.err
       THEN ret' = "err" /\ fi' = fi
       ELSE ret' = "loop" /\ fi' = 1
  /\ UNCHANGED <<meta, rw, xfactors, procVars, decVars, gamVars>>

\* l.40-83: one iteration of the top-level loop on a SubIFDs tag
TagSubIFDs ==
  /\ ret = "loop" /\ fi <= Len(meta.FIA)
  /\ meta.FIA[fi].Tag = "SubIFDs"
  /\ IF meta.FIA[fi].ifd.err
       THEN ret' = "err" /\ UNCHANGED <<rw, fi>>
       ELSE /\ rw' = ApplyRawIFD(rw, meta.FIA[fi].ifd.FIA)
            /\ fi' = fi + 1
            /\ ret' = ret
  /\ UNCHANGED <<meta, xfactors, procVars, decVars, gamVars>>

\* l.85-130: one iteration of the top-level loop on a DNGPrivateData tag
TagDNGPrivateData ==
  /\ ret = "loop" /\ fi <= Len(meta.FIA)
  /\ meta.FIA[fi].Tag = "DNGPrivateData"
  /\ IF meta.FIA[fi].ifd.err
       THEN ret' = "err" /\ UNCHANGED <<rw, fi>>
       ELSE IF meta.FIA[fi].sr2.err
         THEN ret' = "fatal" /\ UNCHANGED <<rw, fi>>
         ELSE /\ rw' = ApplySR2(rw, meta.FIA[fi].sr2.FIA)
              /\ fi' = fi + 1
              /\ ret' = ret
  /\ UNCHANGED <<meta, xfactors, procVars, decVars, gamVars>>

\* l.39: an iteration on any other tag
TagOther ==
  /\ ret = "loop" /\ fi <= Len(meta.FIA)
  /\ meta.FIA[fi].Tag \notin {"SubIFDs", "DNGPrivateData"}
  /\ fi' = fi + 1
  /\ UNCHANGED <<meta, rw, ret, xfactors, procVars, decVars, gamVars>>

\* l.133: return rw, nil
ExtractReturn ==
  /\ ret = "loop" /\ fi > Len(meta.FIA)
  /\ ret' = "ok"
  /\ UNCHANGED <<meta, rw, fi, xfactors, procVars, decVars, gamVars>>

NextExtract ==
  \/ ExtractBegin
  \/ TagSubIFDs
  \/ TagDNGPrivateData
  \/ TagOther
  \/ ExtractReturn

SpecExtract == InitExtract /\ [][NextExtract]_vars

---------------------------------------------------------------------------
(* Reconstruction Engine: readraw14, readCRAW                              *)
(*                                                                         *)
(* raw is the pair <<a, b>> that generates the sensor samples: photosite   *)
(* number p (row-major) holds SampleAt(p).  buf is the pixel payload as    *)
(* bytes.  The linear payload stores each sample as a 16-bit value, low    *)
(* byte first (the native order of the little-endian builds); the          *)
(* compressed payload stores, per row and 32-sample block, the 16 samples  *)
(* of the even columns and then the 16 samples of the odd columns, one     *)
(* code per sample.  img is img.Pix (index k+1 for Pix[k]); img.Stride and *)
(* img.Rect.Max are rw.width and rw.height (NewRGB14).  row is the y of    *)
(* the outer loop.  written is img as the channel-write pass left it, and  *)
(* oob records that a raster index was formed with a column outside        *)
(* [0,width) or a row outside [0,height).                                  *)

MaxWidth == 4
MaxHeight == 4
SampleCodes == 7

pixelBlockSize == 16

Widths == (1..MaxWidth) \cup {2 * pixelBlockSize}
Heights == 1..MaxHeight

SampleSeeds == { <<1, 0>>, <<3, 2>> }

DecodeBlackLevels == { <<0, 0, 0, 0>>, <<0, 0, 6552, 6552>> }
DecodeWhiteBalances == { <<100, 100, 100, 100>>, <<50, 100, 100, 50>> }
DecodeCurves == { <<4096, 8192, 12288, 16383>>, <<8000, 11000, 12953, 14000>> }

SampleCode(p) == (raw[1] * p + raw[2]) % SampleCodes

\* Decompress: the sample a code of a compressed block stands for
CrawSample(code) == code * 2 * GammaDomain

SampleAt(p) == CrawSample(SampleCode(p))

BytesPerSample(kd) == IF kd = "raw14" THEN 2 ELSE 1

LinearPayload(w, h) ==
  [q \in 1..(2 * w * h) |->
     LET v == SampleAt((q - 1) \div 2)
     IN  IF (q - 1) % 2 = 0 THEN v % 256 ELSE v \div 256]

CrawPayload(w, h) ==
  [q \in 1..(w * h) |->
     LET y == (q - 1) \div w
         r == (q - 1) % w
         x0 == (2 * pixelBlockSize) * (r \div (2 * pixelBlockSize))
         j == r % (2 * pixelBlockSize)
         x == IF j < pixelBlockSize THEN x0 + 2 * j
                                    ELSE x0 + 2 * (j - pixelBlockSize) + 1
     IN  SampleCode(y * w + x)]

\* l.312-315: buf seen as []uint16, Len /= 2
Data16(b) ==
  [k \in 1..(Len(b) \div 2) |-> b[2 * k - 1] + 256 * b[2 * k]]

\* NewRGB14: make([]pixel16, w*h)
NewRGB14(w, h) == [k \in 1..(w * h) |-> ZeroPixel]

\* l.328-339: the largest of the four white-balance levels
MaxBalance(wb) ==
  LET m1 == IF wb[1] > wb[2] THEN wb[1] ELSE wb[2]
      m2 == IF wb[3] > m1 THEN wb[3] ELSE m1
  IN  IF wb[4] > m2 THEN wb[4] ELSE m2

\* l.341-344: whiteBalanceRGGB[i] = WhiteBalance[i] / maxBalance
BalanceRatios(wb) == [k \in 1..4 |-> <<wb[k], MaxBalance(wb)>>]

SetChannel(px, ch, v) ==
  CASE ch = "R" -> [px EXCEPT !.R = v]
    [] ch = "G" -> [px EXCEPT !.G = v]
    [] OTHER -> [px EXCEPT !.B = v]

GetChannel(px, ch) ==
  CASE ch = "R" -> px.R
    [] ch = "G" -> px.G
    [] OTHER -> px.B

(* The statements of the loops, in program order.                          *)
(*   <<"slice", hi>>              buf[lo:hi]                               *)
(*   <<"load", x, y, ch, c>>      cur = data[y*Stride+x]; process with     *)
(*                                channel index c; Pix[y*Stride+x].ch = cur*)
(*   <<"block", x, y, ch, c, q>>  Pix[y*Stride+x].ch = process of the      *)
(*                                sample decompressed from buf[q]          *)
(*   <<"copy", x, y, ch, sx, sy>> Pix[y*Stride+x].ch = Pix[sy*Stride+sx].ch*)

Pairs(w) == (w + 1) \div 2

\* l.349-358 and l.361-370: one row of the linear channel-write pass
LoadRow(y, chA, cA, chB, cB) ==
  [k \in 1..(2 * Pairs(rw.width)) |->
     IF (k - 1) % 2 = 0 THEN <<"load", k - 1, y, chA, cA>>
                        ELSE <<"load", k - 1, y, chB, cB>>]

\* l.348-371: one iteration of the outer loop of readraw14's write pass
readraw14WriteOps(y) ==
  LoadRow(y, "R", 0, "G", 1) \o LoadRow(y + 1, "G", 2, "B", 3)

Blocks(w) == (w + 2 * pixelBlockSize - 1) \div (2 * pixelBlockSize)

\* l.242-286: one row of the compressed channel-write pass
BlockRow(y, chA, cA, chB, cB) ==
  [k \in 1..((2 + 2 * pixelBlockSize) * Blocks(rw.width)) |->
     LET m == (k - 1) \div (2 + 2 * pixelBlockSize)
         j == (k - 1) % (2 + 2 * pixelBlockSize)
         x0 == 2 * pixelBlockSize * m
         base == y * rw.width + x0
         i == (j - 2) \div 2
     IN  CASE j = 0 -> <<"slice", base + pixelBlockSize>>
           [] j = 1 -> <<"slice", base + 2 * pixelBlockSize>>
           [] j > 1 /\ j % 2 = 0 -> <<"block", x0 + 2 * i, y, chA, cA, base + i>>
           [] OTHER -> <<"block", x0 + 2 * i + 1, y, chB, cB,
                         base + pixelBlockSize + i>>]

\* l.240-288: one iteration of the outer loop of readCRAW's write pass
readCRAWWriteOps(y) ==
  IF y % 2 = 0 THEN BlockRow(y, "R", 0, "G", 1)
               ELSE BlockRow(y, "G", 0, "B", 1)

FillUpperWrongBlue(y) ==
  [k \in 1..(4 * Pairs(rw.width)) |->
     LET x == 2 * ((k - 1) \div 4)
         j == (k - 1) % 4
     IN  CASE j = 0 -> <<"copy", x, y, "G", x + 1, y>>
           [] j = 1 -> <<"copy", x, y, "B", x + 1, y>>
           [] j = 2 -> <<"copy", x + 1, y, "R", x, y>>
           [] OTHER -> <<"copy", x + 1, y, "B", x + 1, y + 1>>]

\* l.374-380 (l.290-296): the fill of row y of a row pair
FillUpper(y) ==
  [k \in 1..(4 * Pairs(rw.width)) |->
     LET x == 2 * ((k - 1) \div 4)
         j == (k - 1) % 4
     IN  CASE j = 0 -> <<"copy", x, y, "G", x + 1, y>>
           [] j = 1 -> <<"copy", x, y, "B", x + 1, y + 1>>
           [] j = 2 -> <<"copy", x + 1, y, "R", x, y>>
           [] OTHER -> <<"copy", x + 1, y, "B", x + 1, y + 1>>]

\* l.383-389 (l.299-305): the fill of the row below, y1 = y + 1
FillLower(y1) ==
  [k \in 1..(4 * Pairs(rw.width)) |->
     LET x == 2 * ((k - 1) \div 4)
         j == (k - 1) % 4
     IN  CASE j = 0 -> <<"copy", x, y1, "R", x, y1 - 1>>
           [] j = 1 -> <<"copy", x, y1, "B", x + 1, y1>>
           [] j = 2 -> <<"copy", x + 1, y1, "R", x, y1 - 1>>
           [] OTHER -> <<"copy", x + 1, y1, "G", x, y1>>]

\* l.373-390 (l.289-306): one iteration of the outer loop of the fill pass
FillOps(y) == FillUpper(y) \o FillLower(y + 1)

Cells == rw.width * rw.height

Outside(x, y) == x >= rw.width \/ y >= rw.height

Panic(s, o) == [pix |-> s.pix, st |-> "panic", oob |-> s.oob \/ o]

Store(s, x, y, ch, v) ==
  IF y * rw.width + x >= Cells
    THEN Panic(s, TRUE)
    ELSE [pix |-> [s.pix EXCEPT ![y * rw.width + x + 1] = SetChannel(@, ch, v)],
          st |-> "ok",
          oob |-> s.oob \/ Outside(x, y)]

\* One statement; an index out of range panics and ends the run.
Exec(op, s) ==
  CASE s.st = "panic" -> s
    [] op[1] = "slice" -> IF op[2] > Len(buf) THEN Panic(s, FALSE) ELSE s
    [] op[1] = "load" ->
         IF op[3] * rw.width + op[2] >= Len(Data16(buf))
           THEN Panic(s, FALSE)
           ELSE Store(s, op[2], op[3], op[4],
                      Uint16(process(Data16(buf)[op[3] * rw.width + op[2] + 1],
                                     rw.blackLevel[op[5] + 1],
                                     whiteBalanceRGGB[op[5] + 1])))
    [] op[1] = "block" ->
         Store(s, op[2], op[3], op[4],
               Uint16(process(CrawSample(buf[op[6] + 1]),
                              rw.blackLevel[op[5] + 1],
                              whiteBalanceRGGB[op[5] + 1])))
    [] OTHER ->
         IF op[6] * rw.width + op[5] >= Cells
           THEN Panic(s, TRUE)
           ELSE LET t == Store(s, op[2], op[3], op[4],
                               GetChannel(s.pix[op[6] * rw.width + op[5] + 1], op[4]))
                IN  [t EXCEPT !.oob = @ \/ Outside(op[5], op[6])]

\* The statements lo..hi of ops in order, from state s, up to the first panic
\* (the range is halved to keep the evaluation shallow).
RECURSIVE Run(_, _, _, _)
Run(ops, lo, hi, s) ==
  IF lo > hi
    THEN s
    ELSE IF lo = hi
      THEN Exec(ops[lo], s)
      ELSE LET m == (lo + hi) \div 2
               t == Run(ops, lo, m, s)
           IN  IF t.st = "panic" THEN t ELSE Run(ops, m + 1, hi, t)

RunFrom(ops) == Run(ops, 1, Len(ops), [pix |-> img, st |-> "ok", oob |-> oob])

PayloadLengths(kd, w, h) ==
  { w * h * BytesPerSample(kd), w * h * BytesPerSample(kd) - 1,
    (w * h * BytesPerSample(kd)) \div 2 }

InitDecode ==
  /\ xfactors = ZeroFactors
  /\ ProcIdle /\ ExtIdle /\ GamIdle
  /\ kind \in {"raw14", "craw"}
  /\ raw \in SampleSeeds
  /\ \E w \in Widths, h \in Heights, bl \in DecodeBlackLevels,
        wb \in DecodeWhiteBalances, gc \in DecodeCurves :
       /\ rw = [ZeroDetails EXCEPT !.width = w, !.height = h, !.blackLevel = bl,
                                   !.WhiteBalance = wb,
                                   !.gammaCurve = gc \o <<Ceiling14>>]
       /\ \E n \in PayloadLengths(kind, w, h) :
            buf = SubSeq(IF kind = "raw14" THEN LinearPayload(w, h)
                                           ELSE CrawPayload(w, h), 1, n)
       /\ \A c \in 0..(SampleCodes - 1), k \in 1..4 :
            OnGrid(CrawSample(c), bl[k], BalanceRatios(wb)[k])
  /\ img = <<>> /\ whiteBalanceRGGB = <<>> /\ row = 0 /\ pc = "call"
  /\ written = <<>> /\ oob = FALSE

\* l.311-346 (l.209-238): allocation, gammacorrect, white-balance ratios
DecodeBegin ==
  /\ pc = "call"
  /\ img' = NewRGB14(rw.width, rw.height)
  /\ xfactors' = gammacorrect(SubSeq(rw.gammaCurve, 1, 4))
  /\ whiteBalanceRGGB' = BalanceRatios(rw.WhiteBalance)
  /\ row' = 0
  /\ pc' = "write"
  /\ UNCHANGED <<kind, raw, buf, written, oob, rw, procVars, extVars, gamVars>>

\* The state after one outer-loop iteration that ran ops and advanced y by step.
AfterWrite(ops, step) ==
  LET s == RunFrom(ops)
  IN  /\ img' = s.pix
      /\ oob' = s.oob
      /\ IF s.st = "panic"
           THEN pc' = "panic" /\ row' = row /\ written' = written
           ELSE IF row + step < rw.height
             THEN pc' = "write" /\ row' = row + step /\ written' = written
             ELSE pc' = "fill" /\ row' = 0 /\ written' = s.pix

AfterFill(ops) ==
  LET s == RunFrom(ops)
  IN  /\ img' = s.pix
      /\ oob' = s.oob
      /\ IF s.st = "panic"
           THEN pc' = "panic" /\ row' = row
           ELSE IF row + 2 < rw.height
             THEN pc' = "fill" /\ row' = row + 2
             ELSE pc' = "done" /\ row' = row

\* readraw14 l.348-371: rows y and y+1 of the channel-write pass
readraw14Write ==
  /\ pc = "write" /\ kind = "raw14"
  /\ AfterWrite(readraw14WriteOps(row), 2)
  /\ UNCHANGED <<kind, raw, buf, whiteBalanceRGGB, xfactors, rw,
                 procVars, extVars, gamVars>>

\* readCRAW l.240-288: row y of the channel-write pass
readCRAWWrite ==
  /\ pc = "write" /\ kind = "craw"
  /\ AfterWrite(readCRAWWriteOps(row), 1)
  /\ UNCHANGED <<kind, raw, buf, whiteBalanceRGGB, xfactors, rw,
                 procVars, extVars, gamVars>>

\* readraw14 l.373-392: rows y and y+1 of the neighbor-fill pass, return img
readraw14Fill ==
  /\ pc = "fill" /\ kind = "raw14"
  /\ AfterFill(FillOps(row))
  /\ UNCHANGED <<kind, raw, buf, whiteBalanceRGGB, written, xfactors, rw,
                 procVars, extVars, gamVars>>

\* readCRAW l.289-308: rows y and y+1 of the neighbor-fill pass, return img
readCRAWFill ==
  /\ pc = "fill" /\ kind = "craw"
  /\ AfterFill(FillOps(row))
  /\ UNCHANGED <<kind, raw, buf, whiteBalanceRGGB, written, xfactors, rw,
                 procVars, extVars, gamVars>>

NextDecode ==
  \/ DecodeBegin
  \/ readraw14Write
  \/ readCRAWWrite
  \/ readraw14Fill
  \/ readCRAWFill

SpecDecode == InitDecode /\ [][NextDecode]_vars

---------------------------------------------------------------------------
(* Two decodes in one process                                              *)
(*                                                                         *)
(* xfactors is a package-level variable.  Decode d (a call of readraw14 or *)
(* readCRAW) first runs gammacorrect, whose l.188-193 assign xfactors[5]   *)
(* down to xfactors[0] one by one, and then calls process once per sample; *)
(* each call that reaches the polynomial reads xfactors.  dfit[d] is the   *)
(* next coefficient gammacorrect assigns, dleft[d] the correction calls    *)
(* still to come, and dused[d] the coefficient vectors the calls of d have *)
(* read.  The two decodes run on two goroutines.                           *)

MaxCalls == 2

Decodes == {1, 2}

InitGamma ==
  /\ xfactors = ZeroFactors
  /\ ProcIdle /\ ExtIdle /\ DecIdle /\ rw = ZeroDetails
  /\ dpc = [d \in Decodes |-> "call"]
  /\ dcurve \in [Decodes -> Curves]
  /\ dfit = [d \in Decodes |-> 6]
  /\ dleft \in [Decodes -> 1..MaxCalls]
  /\ dused = [d \in Decodes |-> {}]

\* gammacorrect l.188-193: one assignment xfactors[j] = c.At(j, 0)
GammaFit(d) ==
  /\ dpc[d] \in {"call", "fit"}
  /\ xfactors' = [xfactors EXCEPT ![dfit[d]] = gammacorrect(dcurve[d])[dfit[d]]]
  /\ IF dfit[d] = 1
       THEN dpc' = [dpc EXCEPT ![d] = "correct"] /\ dfit' = dfit
       ELSE dpc' = [dpc EXCEPT ![d] = "fit"] /\ dfit' = [dfit EXCEPT ![d] = @ - 1]
  /\ UNCHANGED <<dcurve, dleft, dused, rw, procVars, extVars, decVars>>

\* gamma l.160-166, reached from a process call of the write pass
Correct(d) ==
  /\ dpc[d] = "correct" /\ dleft[d] > 0
  /\ dused' = [dused EXCEPT ![d] = @ \cup {xfactors}]
  /\ dleft' = [dleft EXCEPT ![d] = @ - 1]
  /\ UNCHANGED <<xfactors, dpc, dcurve, dfit, rw, procVars, extVars, decVars>>

\* the decode returns
Finish(d) ==
  /\ dpc[d] = "correct" /\ dleft[d] = 0
  /\ dpc' = [dpc EXCEPT ![d] = "done"]
  /\ UNCHANGED <<xfactors, dcurve, dfit, dleft, dused, rw, procVars, extVars,
                 decVars>>

NextGamma ==
  \E d \in Decodes : GammaFit(d) \/ Correct(d) \/ Finish(d)

SpecGamma == InitGamma /\ [][NextGamma]_vars

---------------------------------------------------------------------------
(* Claims                                                                  *)

Even(n) == n % 2 = 0

Cell(x, y) == y * rw.width + x + 1

\* The channel the write pass stores at photosite (x, y), and its Bayer index
Dominant(x, y) ==
  IF Even(y) THEN (IF Even(x) THEN "R" ELSE "G")
             ELSE (IF Even(x) THEN "G" ELSE "B")

BayerIndex(x, y) == 2 * (y % 2) + (x % 2)

EvenRows == { y \in 0..(rw.height - 1) : Even(y) }

Range(f) == { f[k] : k \in DOMAIN f }

\* every copy statement of the fill pass, and the (x, y, channel) they write
FillCopies == UNION { Range(FillOps(y)) : y \in EvenRows }

FillTargets == { <<o[2], o[3], o[4]>> : o \in FillCopies }

SameTile(x1, y1, x2, y2) ==
  (x1 \div 2 = x2 \div 2) /\ (y1 \div 2 = y2 \div 2)

\* C1: for even width and height, after the channel-write pass and the
\* neighbor-fill pass every cell of every 2x2 tile holds the R the write pass
\* stored in the tile's (x,y), the B it stored in (x+1,y+1), and the G it
\* stored in (x+1,y) (row y) or in (x,y+1) (row y+1); every copy of the fill
\* pass reads a cell of the destination's own tile and a channel that no
\* statement of the fill pass writes.
C1_FillCopyRule ==
  (pc = "done" /\ Even(rw.width) /\ Even(rw.height)) =>
    /\ \A x \in 0..(rw.width - 1), y \in 0..(rw.height - 1) :
         LET tx == 2 * (x \div 2)
             ty == 2 * (y \div 2)
         IN  /\ img[Cell(x, y)].R = written[Cell(tx, ty)].R
             /\ img[Cell(x, y)].B = written[Cell(tx + 1, ty + 1)].B
             /\ img[Cell(x, y)].G =
                  IF y = ty THEN written[Cell(tx + 1, ty)].G
                            ELSE written[Cell(tx, ty + 1)].G
    /\ LET targets == FillTargets
       IN  \A o \in FillCopies :
             /\ SameTile(o[2], o[3], o[5], o[6])
             /\ <<o[5], o[6], o[4]>> \notin targets

\* a finished 4x4 decode whose last tile was written with three different
\* non-zero samples
C1_Witness ==
  /\ pc = "done" /\ rw.width = 4 /\ rw.height = 4
  /\ written[Cell(2, 2)].R # 0
  /\ written[Cell(3, 3)].B # 0
  /\ written[Cell(3, 2)].G # 0
  /\ written[Cell(2, 3)].G # written[Cell(3, 2)].G
  /\ written[Cell(2, 2)].R # written[Cell(3, 3)].B
  /\ img[Cell(3, 3)].R = written[Cell(2, 2)].R

\* C2: a sample at or below the black level is returned unchanged by
\* process, whatever the white-balance ratio and the fitted coefficients.
C2_PassThrough ==
  (ppc \in {"store", "rgba", "done"} /\ pcur <= pblack) => pout = pcur

\* process has returned for a non-zero sample equal to the black level
C2_Witness ==
  ppc = "store" /\ pcur = pblack /\ pcur > 0 /\ pout = pcur

NoSubIFD == \A k \in 1..Len(meta.FIA) : meta.FIA[k].Tag # "SubIFDs"

\* C3: when the top-level tag list holds no SubIFDs tag, extractDetails
\* does not return a nil error (and with it a record whose width, height,
\* payload offset and length, gamma curve, black level and white balance
\* were never populated).
C3_MissingSubIFDIsError ==
  ~(ret = "ok" /\ NoSubIFD)

\* C4: a failure to parse the decrypted SR2 block is returned to the caller
\* as an error; extractDetails never terminates the process.
C4_SR2FailurePropagates ==
  ret # "fatal"

ShortPayload ==
  Len(buf) < rw.width * rw.height * BytesPerSample(kind)

\* C5: with a pixel payload shorter than width x height x bytes-per-sample
\* a reconstruction strategy neither panics on an out-of-range access nor
\* returns a raster; the decode ends in a FormatError.
C5_ShortPayloadIsFormatError ==
  (kind # "none" /\ ShortPayload) => pc \notin {"panic", "done"}

DefiningTree(e) ==
  CASE e.Tag = "SubIFDs" -> e.ifd.FIA
    [] e.Tag = "DNGPrivateData" -> e.sr2.FIA
    [] OTHER -> <<>>

Occurrences(f, tag) == { k \in 1..Len(f) : f[k].Tag = tag }

SetMax(S) == CHOOSE m \in S : \A n \in S : n <= m

\* The value of tag in the last top-level entry, in on-disk order, whose
\* sub-tree defines it; zero when no sub-tree does.
LastDefined(tag) ==
  LET D == { k \in 1..Len(meta.FIA) :
               Occurrences(DefiningTree(meta.FIA[k]), tag) # {} }
  IN  IF D = {}
        THEN <<0, 0, 0, 0>>
        ELSE LET f == DefiningTree(meta.FIA[SetMax(D)])
             IN  f[SetMax(Occurrences(f, tag))].vals

\* C6: extractDetails handles the top-level tags in on-disk order, so the
\* returned blackLevel and WhiteBalance are those of the defining sub-tree
\* that comes last in the list: the decrypted block's values replace the
\* sensor sub-tree's when DNGPrivateData follows SubIFDs, and the sensor
\* sub-tree's win when SubIFDs follows DNGPrivateData.
C6_LastDefiningTreeWins ==
  ret = "ok" =>
    /\ rw.blackLevel = LastDefined("BlackLevel2")
    /\ rw.WhiteBalance = LastDefined("WB_RGGBLevels")

\* a returned extraction of a list in which DNGPrivateData follows SubIFDs
\* and both sub-trees define the black level
C6_Witness ==
  /\ ret = "ok"
  /\ \E i \in 1..Len(meta.FIA), j \in 1..Len(meta.FIA) :
       /\ i < j
       /\ meta.FIA[i].Tag = "SubIFDs"
       /\ Occurrences(meta.FIA[i].ifd.FIA, "BlackLevel2") # {}
       /\ meta.FIA[j].Tag = "DNGPrivateData"
       /\ Occurrences(meta.FIA[j].sr2.FIA, "BlackLevel2") # {}
  /\ rw.blackLevel = PrivateBlack
  /\ rw.width = 4

\* C7: every corrected sample stored in a raster channel lies in
\* [0, 0x3FFF], so that RGBA returns exactly four times the stored value
\* and alpha 0xFFFF.
C7_FourteenBitRange ==
  ppc = "done" =>
    /\ ppix.R <= Ceiling14
    /\ prgba.r = 4 * ppix.R
    /\ prgba.a = AlphaOpaque

\* C8: in both strategies the sample written at photosite (x, y) is
\* corrected with the black level and white-balance ratio of its own Bayer
\* channel index 2*(y mod 2) + (x mod 2), so both strategies write the same
\* raster for the same samples and parameters.
C8_OwnBayerIndex ==
  written # <<>> =>
    \A x \in 0..(rw.width - 1), y \in 0..(rw.height - 1) :
      GetChannel(written[Cell(x, y)], Dominant(x, y)) =
        Uint16(process(SampleAt(y * rw.width + x),
                       rw.blackLevel[BayerIndex(x, y) + 1],
                       whiteBalanceRGGB[BayerIndex(x, y) + 1]))

\* C9: every correction call of a decode evaluates the polynomial with the
\* coefficients fitted from that decode's own gamma control points, also
\* when two decodes are interleaved.
C9_OwnCoefficients ==
  \A d \in Decodes : dused[d] \subseteq {gammacorrect(dcurve[d])}

\* C10: for every width >= 1 and height >= 1 no step of the write pass or
\* of the fill pass forms a raster index with a column outside [0, width)
\* or a row outside [0, height).
C10_NoOutOfRangeCell ==
  ~oob

===========================================================================
